---- MODULE Spec2Model ----
(***************************************************************************)
(* Oportunidades ML: the per-year accumulation loop of the run block       *)
(* (global de-dupe by canonical permalink, year imputation), the price     *)
(* normalisation normalize_price_ars and the grouping build_groups_by_keys *)
(* of src/app_freemium.py.                                                 *)
(*                                                                         *)
(* Encoding of Python values:                                              *)
(*   - a str is a sequence of one-character strings;                       *)
(*   - None is NONE (-1) where the other values are non-negative numbers,  *)
(*     and the one-token sequence NoneStr where the other values are str;  *)
(*   - the empty string as a year is EMPTY (-2);                           *)
(*   - a float is an exact rational [n, d] (d > 0).                        *)
(***************************************************************************)
EXTENDS Integers, Sequences, FiniteSets, TLC

VARIABLES
    pc,              \* position of the script: "idle", "loop", "rows", "done", "stopped"
    quota,           \* quota["count"], persisted in the cookie
    days_since_ts,   \* the days passed since quota["ts"]: 0, or FreePeriodDays and more
    free_searches,   \* history: the non-premium searches that passed the limit check
    years_to_query,  \* list(range(year_min, year_max + 1))
    yi,              \* index in years_to_query of the iteration of `for y in ...`
    n_rows,          \* number of records of rows_y already consumed by `for r in rows_y`
    added,           \* records retained in the current year
    rows_all,        \* the consolidated listing
    seen_links_all,  \* the global set of canonical keys
    total_by_year,   \* the per-year summary
    df,              \* the table built from rows_all (after the defensive de-dupe)
    first_raw,       \* history: canonical key -> first raw record met with it, and its query year
    dup_met,         \* history: a later record with a key already met, and other fields, was met
    scrape_errors,   \* the years for which st.error("Error al scrapear ...") was shown
    np_pc, np_in, np_out,          \* normalize_price_ars: position, arguments, result
    gb_pc, gb_df, gb_min, comp_best, \* comparables: position, df_filtered, min_group_size, result
    pct_threshold, opp,            \* opportunities: the slider value, the opportunity table
    ord_pc, ord_in, ord_out,       \* the loop on one collection in two orders: position, records, results
    can_pc, can_in, can_out,       \* canonicalize_ml_url: position, argument and GET outcome, result
    sc_pc, sc_in, sc_page, sc_rows, sc_logs \* scrape_list: position, arguments, page index, records, logs

runVars == <<pc, quota, days_since_ts, free_searches, years_to_query, yi, n_rows, added, rows_all, seen_links_all,
             total_by_year, df, first_raw, dup_met, scrape_errors>>
npVars == <<np_pc, np_in, np_out>>
gbVars == <<gb_pc, gb_df, gb_min, comp_best, pct_threshold, opp>>
ordVars == <<ord_pc, ord_in, ord_out>>
canVars == <<can_pc, can_in, can_out>>
scVars == <<sc_pc, sc_in, sc_page, sc_rows, sc_logs>>
netVars == <<canVars, scVars>>
quotaVars == <<quota, days_since_ts, free_searches>>
pureVars == <<npVars, gbVars, ordVars, netVars>>
vars == <<runVars, pureVars>>

-----------------------------------------------------------------------------
(* Python values *)

NONE == -1
EMPTY == -2
NAN == -3
NoneStr == <<"<None>">>

\* a falsy str-or-None value: `not u`
Falsy(u) == u = NoneStr \/ u = <<>>

\* the index of the first occurrence of c in s, 0 if there is none (str.find + 1)
Find(s, c) ==
    IF \E i \in 1..Len(s) : s[i] = c
    THEN CHOOSE i \in 1..Len(s) : s[i] = c /\ \A j \in 1..(i - 1) : s[j] # c
    ELSE 0

\* the index of the first character of s, from position `from`, that is in cs; Len(s)+1 if none
FindAny(s, cs, from) ==
    IF \E i \in from..Len(s) : s[i] \in cs
    THEN CHOOSE i \in from..Len(s) : s[i] \in cs /\ \A j \in from..(i - 1) : s[j] \notin cs
    ELSE Len(s) + 1

Lower == [c \in {"A", "H", "R", "S", "U", "D", "E"} |->
            CASE c = "A" -> "a" [] c = "H" -> "h" [] c = "R" -> "r" [] c = "S" -> "s"
              [] c = "U" -> "u" [] c = "D" -> "d" [] c = "E" -> "e"]
Upper == [c \in {"a", "h", "r", "s", "u", "d", "e"} |->
            CASE c = "a" -> "A" [] c = "h" -> "H" [] c = "r" -> "R" [] c = "s" -> "S"
              [] c = "u" -> "U" [] c = "d" -> "D" [] c = "e" -> "E"]

\* str.lower() and str.upper()
str_lower(s) == [i \in 1..Len(s) |-> IF s[i] \in DOMAIN Lower THEN Lower[s[i]] ELSE s[i]]
str_upper(s) == [i \in 1..Len(s) |-> IF s[i] \in DOMAIN Upper THEN Upper[s[i]] ELSE s[i]]

Letters == DOMAIN Lower \cup DOMAIN Upper \cup {"m", "b", "t", "p"}
SchemeChars == Letters \cup {"+", "-", "."}
UsesNetloc == {<<"h", "t", "t", "p">>, <<"h", "t", "t", "p", "s">>}

-----------------------------------------------------------------------------
(* urllib.parse and _canonical_link *)

\* urlsplit, the scheme: url[:i].lower() when url[:i] is made of scheme characters
SplitScheme(u) ==
    LET i == Find(u, ":") IN
    IF i > 1 /\ u[1] \in Letters /\ \A j \in 1..(i - 1) : u[j] \in SchemeChars
    THEN [head |-> str_lower(SubSeq(u, 1, i - 1)), rest |-> SubSeq(u, i + 1, Len(u))]
    ELSE [head |-> <<>>, rest |-> u]

\* urlsplit, the netloc: after a leading "//", up to the first of "/", "?", "#"
SplitNetloc(u) ==
    LET e == FindAny(u, {"/", "?", "#"}, 3) IN
    IF Len(u) >= 2 /\ u[1] = "/" /\ u[2] = "/"
    THEN [head |-> SubSeq(u, 3, e - 1), rest |-> SubSeq(u, e, Len(u))]
    ELSE [head |-> <<>>, rest |-> u]

\* url.split(c, 1) when c is in url: (what precedes the first c, what follows it)
SplitOnce(u, c) ==
    LET i == Find(u, c) IN
    IF i > 0
    THEN [head |-> SubSeq(u, 1, i - 1), rest |-> SubSeq(u, i + 1, Len(u))]
    ELSE [head |-> u, rest |-> <<>>]

\* urlsplit(u): (scheme, netloc, path, query, fragment)
urlsplit(u) ==
    LET s == SplitScheme(u) IN
    LET n == SplitNetloc(s.rest) IN
    LET f == SplitOnce(n.rest, "#") IN
    LET q == SplitOnce(f.head, "?") IN
    [scheme |-> s.head, netloc |-> n.head, path |-> q.head,
     query |-> q.rest, fragment |-> f.rest]

\* urlunsplit((scheme, netloc, path, "", ""))
urlunsplit(scheme, netloc, path) ==
    LET slashes == netloc # <<>>
                   \/ (scheme \in UsesNetloc
                       /\ ~(Len(path) >= 2 /\ path[1] = "/" /\ path[2] = "/"))
        url == IF slashes
               THEN <<"/", "/">> \o netloc
                    \o (IF path # <<>> /\ path[1] # "/" THEN <<"/">> ELSE <<>>) \o path
               ELSE path
    IN  IF scheme # <<>> THEN scheme \o <<":">> \o url ELSE url

_canonical_link(u) ==
    IF Falsy(u) THEN <<>>
    ELSE LET p == urlsplit(u) IN urlunsplit(p.scheme, p.netloc, p.path)

-----------------------------------------------------------------------------
(* Inputs of the run: the year slider and the records scrape_list returns *)

FREE_LIMIT_SEARCHES == 2
YearLo == 2016
MaxYears == 2
MaxRows == 2

\* the year slider: year_min stays at its default, year_max is any of the next years
YearMins == {YearLo}
YearMaxs == YearLo..(YearLo + MaxYears - 1)

\* permalinks with a listing behind them: two listings, one of them also met with an
\* upper-case scheme, a tracking query and a fragment
ListingLinks ==
    { <<"h", ":", "/", "/", "m", "/", "a">>,
      <<"H", ":", "/", "/", "m", "/", "a", "?", "t", "#", "p">>,
      <<"h", ":", "/", "/", "m", "/", "b">> }

\* permalinks with nothing to link to: absent (None), empty, a query alone
NoLinks == { NoneStr, <<>>, <<"?", "t">> }

\* the extracted year: None, "", 0, or a year found in the card
RawYears == {NONE, EMPTY, 0, YearLo - 1}

\* the raw records a page can hold
RawRecords == [permalink : ListingLinks, year : RawYears]
              \cup [permalink : NoLinks, year : {NONE}]

-----------------------------------------------------------------------------
(* The run block: per-year loop *)

\* the row appended for a raw record r met in query year y
Retained(y, r, k) ==
    [permalink |-> r.permalink,
     year |-> IF r.year \in {NONE, EMPTY, 0} THEN y ELSE r.year,
     _permalink_key |-> k]

\* DedupeRecord without the `k in seen_links_all` test
DedupeRecord_NoSeenTest(st, y, r) ==
    LET k == _canonical_link(r.permalink) IN
    IF k = <<>>
    THEN st
    ELSE [rows_all |-> Append(st.rows_all, Retained(y, r, k)),
          seen_links_all |-> st.seen_links_all \cup {k},
          added |-> st.added + 1]

\* DedupeRecord where a later duplicate overwrites the row kept for its key
DedupeRecord_LastWins(st, y, r) ==
    LET k == _canonical_link(r.permalink) IN
    IF k = <<>>
    THEN st
    ELSE IF k \in st.seen_links_all
    THEN [st EXCEPT !.rows_all =
            [i \in 1..Len(st.rows_all) |->
                IF st.rows_all[i]._permalink_key = k THEN Retained(y, r, k)
                ELSE st.rows_all[i]]]
    ELSE [rows_all |-> Append(st.rows_all, Retained(y, r, k)),
          seen_links_all |-> st.seen_links_all \cup {k},
          added |-> st.added + 1]

\* DedupeRecord without the `not k` test
DedupeRecord_NoEmptyTest(st, y, r) ==
    LET k == _canonical_link(r.permalink) IN
    IF k \in st.seen_links_all
    THEN st
    ELSE [rows_all |-> Append(st.rows_all, Retained(y, r, k)),
          seen_links_all |-> st.seen_links_all \cup {k},
          added |-> st.added + 1]

\* DedupeRecord imputing the year only when it is None
DedupeRecord_ImputeNoneOnly(st, y, r) ==
    LET k == _canonical_link(r.permalink) IN
    IF k = <<>> \/ k \in st.seen_links_all
    THEN st
    ELSE [rows_all |-> Append(st.rows_all,
                          [permalink |-> r.permalink,
                           year |-> IF r.year = NONE THEN y ELSE r.year,
                           _permalink_key |-> k]),
          seen_links_all |-> st.seen_links_all \cup {k},
          added |-> st.added + 1]

\* one iteration of `for r in (rows_y or [])` on the loop state
\* st = [rows_all, seen_links_all, added], with y the query year
DedupeRecord(st, y, r) ==
    LET k == _canonical_link(r.permalink) IN
    IF k = <<>> \/ k \in st.seen_links_all
    THEN st
    ELSE [rows_all |-> Append(st.rows_all, Retained(y, r, k)),
          seen_links_all |-> st.seen_links_all \cup {k},
          added |-> st.added + 1]

\* df.dropna(subset=["_permalink_key"]).drop_duplicates(subset=["_permalink_key"], keep="first")
RECURSIVE drop_duplicates(_)
drop_duplicates(rows) ==
    IF rows = <<>> THEN <<>>
    ELSE LET n == Len(rows)
             init == drop_duplicates(SubSeq(rows, 1, n - 1))
         IN  IF \E i \in 1..Len(init) : init[i]._permalink_key = rows[n]._permalink_key
             THEN init
             ELSE Append(init, rows[n])

\* the history kept for the claims: the first raw record met with each key, and for
\* the key of a listing the query year it was met in
NoteRaw(h, y, r) ==
    LET k == _canonical_link(r.permalink) IN
    IF k \in DOMAIN h THEN h
    ELSE [x \in DOMAIN h \cup {k} |->
             IF x = k THEN [y |-> IF k = <<>> THEN NONE ELSE y, r |-> r] ELSE h[x]]

\* the history kept for the claims: r has the key of an earlier record and differs from it
IsLaterDuplicate(h, r) ==
    LET k == _canonical_link(r.permalink) IN
    k # <<>> /\ k \in DOMAIN h /\ h[k].r # r

\* the loop before the search button is pressed
LoopIdle ==
    /\ pc = "idle"
    /\ quota = 0
    /\ days_since_ts = 0
    /\ free_searches = 0
    /\ years_to_query = <<>>
    /\ yi = 0
    /\ n_rows = 0
    /\ added = 0
    /\ rows_all = <<>>
    /\ seen_links_all = {}
    /\ total_by_year = <<>>
    /\ first_raw = <<>>
    /\ dup_met = FALSE
    /\ scrape_errors = {}

\* the script before the search button is pressed
RunIdle == LoopIdle /\ df = <<>>

\* the functions checked on their own are not under evaluation
NpIdle == np_pc = "off" /\ np_in = <<>> /\ np_out = <<>>
GbIdle ==
    /\ gb_pc = "off" /\ gb_df = <<>> /\ gb_min = 0 /\ comp_best = <<>>
    /\ pct_threshold = 0 /\ opp = <<>>
OrdIdle == ord_pc = "off" /\ ord_in = <<>> /\ ord_out = <<>>
CanIdle == can_pc = "off" /\ can_in = <<>> /\ can_out = <<>>
ScIdle == sc_pc = "off" /\ sc_in = <<>> /\ sc_page = 0 /\ sc_rows = <<>> /\ sc_logs = <<>>
NetIdle == CanIdle /\ ScIdle

Init == RunIdle /\ NpIdle /\ GbIdle /\ OrdIdle /\ NetIdle

\* `if run:` with the limit reached by a non-premium user: st.error, st.stop()
RefuseRun ==
    /\ pc \in {"idle", "done", "stopped"}
    /\ quota >= FREE_LIMIT_SEARCHES
    /\ pc' = "stopped"
    /\ years_to_query' = <<>> /\ yi' = 0 /\ n_rows' = 0 /\ added' = 0
    /\ rows_all' = <<>> /\ seen_links_all' = {} /\ total_by_year' = <<>> /\ df' = <<>>
    /\ first_raw' = <<>> /\ dup_met' = FALSE /\ scrape_errors' = {}
    /\ UNCHANGED <<quotaVars, pureVars>>

\* StartRun with inc_search_count called for premium users too
StartRun_CountsPremium ==
    /\ pc \in {"idle", "done", "stopped"}
    /\ \E premium \in BOOLEAN, year_min \in YearMins, year_max \in YearMaxs :
        /\ year_min <= year_max
        /\ premium \/ quota < FREE_LIMIT_SEARCHES
        /\ quota' = quota + 1
        /\ days_since_ts' = 0
        /\ free_searches' = IF premium THEN free_searches ELSE free_searches + 1
        /\ years_to_query' = [i \in 1..(year_max - year_min + 1) |-> year_min + i - 1]
    /\ pc' = "loop"
    /\ yi' = 1 /\ n_rows' = 0 /\ added' = 0
    /\ rows_all' = <<>> /\ seen_links_all' = {} /\ total_by_year' = <<>> /\ df' = <<>>
    /\ first_raw' = <<>> /\ dup_met' = FALSE /\ scrape_errors' = {}
    /\ UNCHANGED <<pureVars>>

\* StartRun with the limit test `already > FREE_LIMIT_SEARCHES`
StartRun_OffByOne ==
    /\ pc \in {"idle", "done", "stopped"}
    /\ \E premium \in BOOLEAN, year_min \in YearMins, year_max \in YearMaxs :
        /\ year_min <= year_max
        /\ premium \/ quota <= FREE_LIMIT_SEARCHES
        /\ quota' = IF premium THEN quota ELSE quota + 1
        /\ days_since_ts' = IF premium THEN days_since_ts ELSE 0
        /\ free_searches' = IF premium THEN free_searches ELSE free_searches + 1
        /\ years_to_query' = [i \in 1..(year_max - year_min + 1) |-> year_min + i - 1]
    /\ pc' = "loop"
    /\ yi' = 1 /\ n_rows' = 0 /\ added' = 0
    /\ rows_all' = <<>> /\ seen_links_all' = {} /\ total_by_year' = <<>> /\ df' = <<>>
    /\ first_raw' = <<>> /\ dup_met' = FALSE /\ scrape_errors' = {}
    /\ UNCHANGED <<pureVars>>

\* `if run:` passing the limit: count the search (inc_search_count sets quota["ts"] to
\* the present time), build the year list, empty accumulators
StartRun ==
    /\ pc \in {"idle", "done", "stopped"}
    /\ \E premium \in BOOLEAN, year_min \in YearMins, year_max \in YearMaxs :
        /\ year_min <= year_max
        /\ premium \/ quota < FREE_LIMIT_SEARCHES
        /\ quota' = IF premium THEN quota ELSE quota + 1
        /\ days_since_ts' = IF premium THEN days_since_ts ELSE 0
        /\ free_searches' = IF premium THEN free_searches ELSE free_searches + 1
        /\ years_to_query' = [i \in 1..(year_max - year_min + 1) |-> year_min + i - 1]
    /\ pc' = "loop"
    /\ yi' = 1 /\ n_rows' = 0 /\ added' = 0
    /\ rows_all' = <<>> /\ seen_links_all' = {} /\ total_by_year' = <<>> /\ df' = <<>>
    /\ first_raw' = <<>> /\ dup_met' = FALSE /\ scrape_errors' = {}
    /\ UNCHANGED <<pureVars>>

\* an iteration where the error of scrape_list ends the whole run: st.stop() in `except`
ScrapeRaises_Stops ==
    /\ pc = "loop"
    /\ yi <= Len(years_to_query)
    /\ scrape_errors' = scrape_errors \cup {years_to_query[yi]}
    /\ pc' = "stopped"
    /\ n_rows' = 0
    /\ added' = 0
    /\ UNCHANGED <<quotaVars, years_to_query, yi, total_by_year, rows_all, seen_links_all, df,
                   first_raw, dup_met, pureVars>>

\* an iteration of `for y in years_to_query` in which scrape_list raises: st.error,
\* rows_y = [], nothing is added and the year gets its summary entry with 0 items
ScrapeRaises ==
    /\ pc = "loop"
    /\ yi <= Len(years_to_query)
    /\ scrape_errors' = scrape_errors \cup {years_to_query[yi]}
    /\ total_by_year' = Append(total_by_year, [year |-> years_to_query[yi], items |-> 0])
    /\ yi' = yi + 1
    /\ n_rows' = 0
    /\ added' = 0
    /\ UNCHANGED <<pc, quotaVars, years_to_query, rows_all, seen_links_all, df,
                   first_raw, dup_met, pureVars>>

\* head of `for y in years_to_query` when scrape_list returns: the seed is canonicalized
\* (a verification there only shows a warning) and the year scraped; the records come
\* back through `for r in rows_y` one at a time
BeginYear ==
    /\ pc = "loop"
    /\ yi <= Len(years_to_query)
    /\ pc' = "rows"
    /\ n_rows' = 0
    /\ added' = 0
    /\ UNCHANGED <<quotaVars, years_to_query, yi, rows_all, seen_links_all, total_by_year, df,
                   first_raw, dup_met, scrape_errors, pureVars>>

\* one iteration of `for r in (rows_y or [])`
NextRecord ==
    /\ pc = "rows"
    /\ n_rows < MaxRows
    /\ \E r \in RawRecords :
        LET y == years_to_query[yi]
            st == DedupeRecord([rows_all |-> rows_all, seen_links_all |-> seen_links_all,
                                added |-> added], y, r)
        IN  /\ rows_all' = st.rows_all
            /\ seen_links_all' = st.seen_links_all
            /\ added' = st.added
            /\ first_raw' = NoteRaw(first_raw, y, r)
            /\ dup_met' = (dup_met \/ IsLaterDuplicate(first_raw, r))
    /\ n_rows' = n_rows + 1
    /\ UNCHANGED <<pc, quotaVars, years_to_query, yi, total_by_year, df, scrape_errors, pureVars>>

\* EndYear with the summary counting the records of rows_y: items = len(rows_y)
EndYear_CountsRaw ==
    /\ pc = "rows"
    /\ total_by_year' = Append(total_by_year, [year |-> years_to_query[yi], items |-> n_rows])
    /\ yi' = yi + 1
    /\ pc' = "loop"
    /\ UNCHANGED <<quotaVars, years_to_query, n_rows, added, rows_all, seen_links_all, df,
                   first_raw, dup_met, scrape_errors, pureVars>>

\* rows_y exhausted (or scrape_list raised and rows_y = []): the year's summary entry
EndYear ==
    /\ pc = "rows"
    /\ total_by_year' = Append(total_by_year, [year |-> years_to_query[yi], items |-> added])
    /\ yi' = yi + 1
    /\ pc' = "loop"
    /\ UNCHANGED <<quotaVars, years_to_query, n_rows, added, rows_all, seen_links_all, df,
                   first_raw, dup_met, scrape_errors, pureVars>>

\* after the loop: stop when nothing was found, else build the table
Consolidate ==
    /\ pc = "loop"
    /\ yi > Len(years_to_query)
    /\ IF rows_all = <<>>
       THEN pc' = "stopped" /\ df' = <<>>
       ELSE pc' = "done" /\ df' = drop_duplicates(rows_all)
    /\ UNCHANGED <<quotaVars, years_to_query, yi, n_rows, added, rows_all, seen_links_all,
                   total_by_year, first_raw, dup_met, scrape_errors, pureVars>>

Next ==
    RefuseRun \/ StartRun \/ ScrapeRaises \/ BeginYear \/ NextRecord \/ EndYear \/ Consolidate

Spec == Init /\ [][Next]_vars

FreePeriodDays == 30

\* between two runs of the script, FreePeriodDays days (or more) pass
Wait30Days ==
    /\ pc \in {"idle", "done", "stopped"}
    /\ days_since_ts < FreePeriodDays
    /\ days_since_ts' = FreePeriodDays
    /\ UNCHANGED <<pc, quota, free_searches, years_to_query, yi, n_rows, added, rows_all,
                   seen_links_all, total_by_year, df, first_raw, dup_met, scrape_errors,
                   pureVars>>

\* the run block over the days
NextQuota == Next \/ Wait30Days

SpecQuota == Init /\ [][NextQuota]_vars

-----------------------------------------------------------------------------
(* Claims on the per-year accumulation loop *)

\* the permalink with its query string and fragment removed
StripQueryFragment(u) ==
    IF Falsy(u) THEN <<>> ELSE SubSeq(u, 1, FindAny(u, {"?", "#"}, 1) - 1)

UniqueKeys(rows) ==
    \A i, j \in 1..Len(rows) :
        i # j => /\ rows[i]._permalink_key # rows[j]._permalink_key
                 /\ _canonical_link(rows[i].permalink) # _canonical_link(rows[j].permalink)
                 /\ StripQueryFragment(rows[i].permalink) # StripQueryFragment(rows[j].permalink)

\* C1: in every state of the loop and after it, no two records of rows_all, and no two
\* records of the table built from it, have the same canonical permalink key.
C1_NoDuplicateKeys == UniqueKeys(rows_all) /\ UniqueKeys(df)

\* a run that met a duplicate and ended with a table of two listings
C1_Witness == pc = "done" /\ dup_met /\ Len(rows_all) = 2 /\ Len(df) = 2

\* the row kept for the first raw record f.r of a key, met in query year f.y
KeepsFirst(row, f) ==
    /\ row.permalink = f.r.permalink
    /\ row.year = IF f.r.year \in {NONE, EMPTY, 0} THEN f.y ELSE f.r.year

\* C2: the record kept for a canonical key is the first raw record met with that key in
\* processing order; a later duplicate neither replaces it nor changes its fields.
C2_FirstSeenKept ==
    /\ \A i \in 1..Len(rows_all) :
        /\ rows_all[i]._permalink_key \in DOMAIN first_raw
        /\ KeepsFirst(rows_all[i], first_raw[rows_all[i]._permalink_key])
    /\ \A i \in 1..Len(df) : KeepsFirst(df[i], first_raw[df[i]._permalink_key])

\* the second year of a run, after a duplicate with other fields than the first was met
C2_Witness == pc = "rows" /\ yi = 2 /\ n_rows > 0 /\ added = 0 /\ dup_met /\ rows_all # <<>>

\* C3: a raw record whose permalink is missing, empty or canonicalizes to the empty
\* string is never retained and never enters the seen-key set.
C3_NoEmptyKey ==
    /\ <<>> \notin seen_links_all
    /\ \A i \in 1..Len(rows_all) :
        /\ rows_all[i]._permalink_key # <<>>
        /\ ~Falsy(rows_all[i].permalink)
        /\ StripQueryFragment(rows_all[i].permalink) # <<>>
    /\ \A i \in 1..Len(df) : df[i]._permalink_key # <<>>

\* a record whose non-empty permalink has an empty key was met, and a listing retained
C3_Witness ==
    /\ <<>> \in DOMAIN first_raw
    /\ first_raw[<<>>].r.permalink = <<"?", "t">>
    /\ rows_all # <<>>

\* C5: a retained record whose extracted year is None, "" or 0 ends with the query year
\* of the iteration in which its first occurrence was met.
C5_YearImputed ==
    /\ \A i \in 1..Len(rows_all) :
        LET f == first_raw[rows_all[i]._permalink_key] IN
        f.r.year \in {NONE, EMPTY, 0} => rows_all[i].year = f.y
    /\ \A i \in 1..Len(df) :
        LET f == first_raw[df[i]._permalink_key] IN
        f.r.year \in {NONE, EMPTY, 0} => df[i].year = f.y

\* rows retained with each of the three empty year values, one of them in the second year
C5_Witness ==
    /\ Len(rows_all) = 2
    /\ {first_raw[rows_all[i]._permalink_key].r.year : i \in 1..2} \in {{0, EMPTY}, {0, NONE}}
    /\ rows_all[2].year = YearLo + 1
    /\ rows_all[1].year = YearLo

\* C18: the loop gives every year of the range its iteration and its summary entry, in
\* order, whatever happened to the fetch of an earlier year: at the end of the run the
\* years of total_by_year are years_to_query, and inside the loop the years already
\* passed all have their entry.
C18_EveryYearQueried ==
    /\ (pc \in {"loop", "rows"})
          => /\ Len(total_by_year) = yi - 1
             /\ \A i \in 1..Len(total_by_year) : total_by_year[i].year = years_to_query[i]
    /\ (pc \in {"done", "stopped"})
          => [i \in 1..Len(total_by_year) |-> total_by_year[i].year] = years_to_query

\* the fetch of the first year raised and the second year still brought records
C18_Witness ==
    /\ pc = "done"
    /\ Len(years_to_query) = 2
    /\ years_to_query[1] \in scrape_errors
    /\ total_by_year[1].items = 0
    /\ total_by_year[2].items > 0


\* the sum of the item counts of the per-year summary
RECURSIVE SumItems(_)
SumItems(summary) ==
    IF summary = <<>> THEN 0
    ELSE summary[Len(summary)].items + SumItems(SubSeq(summary, 1, Len(summary) - 1))

\* the keys first met while year y was queried
NewKeys(y) == {k \in DOMAIN first_raw : k # <<>> /\ first_raw[k].y = y}

\* a run refused by the limit: stopped with no year list built
Refused == pc = "stopped" /\ years_to_query = <<>>

\* C23: the non-premium searches that reached the scraping stage are never more than
\* FREE_LIMIT_SEARCHES, and a refused run has the count at the limit, as it was, with
\* no year list, no summary entry and no record.
C23_FreeSearchLimit ==
    /\ free_searches <= FREE_LIMIT_SEARCHES
    /\ Refused => /\ quota = FREE_LIMIT_SEARCHES
                  /\ total_by_year = <<>>
                  /\ rows_all = <<>>
                  /\ seen_links_all = {}

\* a run refused after FREE_LIMIT_SEARCHES free searches
C23_Witness ==
    /\ Refused
    /\ free_searches = FREE_LIMIT_SEARCHES

\* C25: after each iteration the summary has one entry per year processed, the items
\* of each entry are the keys first retained in its year, and the sum of the items is
\* the size of the consolidated listing and of the seen-key set (inside an iteration,
\* together with the count of the year in progress).
C25_SummaryCounts ==
    (pc \in {"loop", "rows"}) =>
        /\ Len(total_by_year) = yi - 1
        /\ \A i \in 1..Len(total_by_year) :
              total_by_year[i].items = Cardinality(NewKeys(total_by_year[i].year))
        /\ SumItems(total_by_year) + (IF pc = "rows" THEN added ELSE 0) = Len(rows_all)
        /\ Len(rows_all) = Cardinality(seen_links_all)

\* two years processed, each with a new record, the second one with a record already
\* retained as well
C25_Witness ==
    /\ pc = "loop"
    /\ Len(total_by_year) = 2
    /\ total_by_year[1].items > 0 /\ total_by_year[2].items > 0
    /\ dup_met

\* C26: the persisted count is the number of non-premium searches that passed the
\* limit check, in every state: from the start of the loop on, after a search that
\* found nothing or failed, after premium runs and after refused runs.
C26_QuotaCountsFreeSearches ==
    quota = free_searches

\* a counted search in which the fetch of a year failed and nothing was found
C26_Witness ==
    /\ pc = "stopped"
    /\ years_to_query # <<>>
    /\ scrape_errors # {}
    /\ rows_all = <<>>
    /\ quota = 1
    /\ free_searches = 1

\* C24 as stated: one free search every FreePeriodDays days: a non-premium search
\* passes the limit check only if it is the first or FreePeriodDays days have passed
\* since the last one, and a run is refused only before those days have passed.
C24_OneFreeSearchPer30Days ==
    [][ /\ (free_searches' > free_searches)
            => (free_searches = 0 \/ days_since_ts >= FreePeriodDays)
        /\ (Refused' /\ pc' # pc) => days_since_ts < FreePeriodDays ]_vars

-----------------------------------------------------------------------------
(* The two loops on one collection of raw records, taken in two orders *)

MaxColl == 3

\* a raw record with the query year of the iteration that meets it; the extracted year
\* is absent, so the instance kept for a listing shows the year of its query
OrderRecords ==
    [y : {YearLo, YearLo + 1}, r : {x \in RawRecords : x.permalink \in ListingLinks /\ x.year = NONE}]
    \cup [y : {YearLo}, r : {x \in RawRecords : x.permalink \in NoLinks}]

RECURSIVE SeqsUpTo(_, _)
SeqsUpTo(S, n) ==
    IF n = 0 THEN {<<>>}
    ELSE LET shorter == SeqsUpTo(S, n - 1) IN
         shorter \cup {Append(q, x) : q \in {z \in shorter : Len(z) = n - 1}, x \in S}

\* the loops that stop at the first record they skip (`break` for `continue`)
RECURSIVE DedupeAll_Break(_)
DedupeAll_Break(log) ==
    IF log = <<>>
    THEN [rows_all |-> <<>>, seen_links_all |-> {}, added |-> 0]
    ELSE LET n == Len(log)
             st == DedupeAll_Break(SubSeq(log, 1, n - 1))
         IN  IF st.added < n - 1 THEN st ELSE DedupeRecord(st, log[n].y, log[n].r)

\* `for y in years_to_query: ... for r in rows_y: ...` on the records in processing
\* order, from empty accumulators (added counts over the whole run)
RECURSIVE DedupeAll(_)
DedupeAll(log) ==
    IF log = <<>>
    THEN [rows_all |-> <<>>, seen_links_all |-> {}, added |-> 0]
    ELSE LET n == Len(log) IN
         DedupeRecord(DedupeAll(SubSeq(log, 1, n - 1)), log[n].y, log[n].r)

InitOrder ==
    /\ RunIdle /\ NpIdle /\ GbIdle /\ NetIdle
    /\ ord_pc = "in"
    /\ ord_in \in SeqsUpTo(OrderRecords, MaxColl)
    /\ ord_out = <<>>

\* the collection is processed as given and in another order
Reorder ==
    /\ ord_pc = "in"
    /\ LET given == DedupeAll(ord_in).rows_all IN
       \E p \in Permutations(1..Len(ord_in)) :
          ord_out' = [given |-> given,
                      other |-> DedupeAll([i \in 1..Len(ord_in) |-> ord_in[p[i]]]).rows_all]
    /\ ord_pc' = "out"
    /\ UNCHANGED <<ord_in, runVars, npVars, gbVars, netVars>>

NextOrder == Reorder

SpecOrder == InitOrder /\ [][NextOrder]_vars

KeysOf(rows) == {rows[i]._permalink_key : i \in 1..Len(rows)}

\* C4: for a fixed collection of raw records, the set of canonical keys that survives
\* the de-dupe is the same in every processing order: it is the set of the non-empty
\* canonical keys of the collection.
C4_SameKeySet ==
    ord_pc = "out" =>
        /\ KeysOf(ord_out.given) = KeysOf(ord_out.other)
        /\ KeysOf(ord_out.given) =
              {_canonical_link(ord_in[i].r.permalink) : i \in 1..Len(ord_in)} \ {<<>>}

\* two orders that keep the same keys and not the same instance of a listing
C4_Witness ==
    /\ ord_pc = "out"
    /\ Len(ord_out.given) = 2
    /\ KeysOf(ord_out.given) = KeysOf(ord_out.other)
    /\ {ord_out.given[i] : i \in 1..Len(ord_out.given)}
         # {ord_out.other[i] : i \in 1..Len(ord_out.other)}

-----------------------------------------------------------------------------
(* normalize_price_ars *)

\* a float as an exact rational; None among floats is the pair with denominator 0
Rat(n, d) == [n |-> n, d |-> d]
NoneNum == Rat(0, 0)

ARS == <<"A", "R", "S">>
USD == <<"U", "S", "D">>
USD_STAR == <<"U", "S", "D", "*">>

MinRate == 1
DefaultRate == 1350
MinThreshold == 10000
DefaultThreshold == 200000

\* the arguments: price (None or a number), currency (None or a str), usd_ars and
\* misprice_ars_threshold as the sidebar gives them
Prices == {NONE, 0, MinThreshold - 1, MinThreshold, 50000,
           DefaultThreshold - 1, DefaultThreshold, DefaultThreshold + 1}
Currencies == {NoneStr, <<>>, ARS, <<"a", "r", "s">>, USD, <<"u", "s", "d">>,
               <<"E", "U", "R">>, <<"e", "u", "r">>}
Rates == {MinRate, DefaultRate}
Thresholds == {MinThreshold, DefaultThreshold}

Result(price_ars, price_usd, assumed_currency) ==
    [price_ars |-> price_ars, price_usd |-> price_usd, assumed_currency |-> assumed_currency]

\* `cur = (currency or "ARS")`, the case of the letters kept
Cur_CaseSensitive(currency) == IF Falsy(currency) THEN ARS ELSE currency

\* `cur = (currency or "ARS").upper()`
Cur(currency) == str_upper(IF Falsy(currency) THEN ARS ELSE currency)

\* normalize_price_ars without the branch of the misprice heuristic
normalize_price_ars_NoMisprice(price, currency, usd_ars, misprice_ars_threshold) ==
    IF price = NONE THEN Result(NoneNum, NoneNum, NoneStr)
    ELSE IF Cur(currency) = USD THEN Result(Rat(price * usd_ars, 1), Rat(price, 1), USD)
    ELSE IF Cur(currency) = ARS THEN Result(Rat(price, 1), Rat(price, usd_ars), ARS)
    ELSE Result(Rat(price, 1), Rat(price, usd_ars), Cur(currency))

\* normalize_price_ars with `p <= misprice_ars_threshold`
normalize_price_ars_Inclusive(price, currency, usd_ars, misprice_ars_threshold) ==
    IF price = NONE THEN Result(NoneNum, NoneNum, NoneStr)
    ELSE IF Cur(currency) = USD THEN Result(Rat(price * usd_ars, 1), Rat(price, 1), USD)
    ELSE IF Cur(currency) = ARS
    THEN IF price <= misprice_ars_threshold
         THEN Result(Rat(price * usd_ars, 1), Rat(price, 1), USD_STAR)
         ELSE Result(Rat(price, 1), Rat(price, usd_ars), ARS)
    ELSE Result(Rat(price, 1), Rat(price, usd_ars), Cur(currency))

\* normalize_price_ars converting a USD price only below the threshold
normalize_price_ars_UsdThreshold(price, currency, usd_ars, misprice_ars_threshold) ==
    IF price = NONE THEN Result(NoneNum, NoneNum, NoneStr)
    ELSE IF Cur(currency) = USD
    THEN IF price < misprice_ars_threshold
         THEN Result(Rat(price * usd_ars, 1), Rat(price, 1), USD)
         ELSE Result(Rat(price, 1), Rat(price, usd_ars), USD)
    ELSE IF Cur(currency) = ARS
    THEN IF price < misprice_ars_threshold
         THEN Result(Rat(price * usd_ars, 1), Rat(price, 1), USD_STAR)
         ELSE Result(Rat(price, 1), Rat(price, usd_ars), ARS)
    ELSE Result(Rat(price, 1), Rat(price, usd_ars), Cur(currency))

\* normalize_price_ars applying the misprice heuristic to every currency but USD
normalize_price_ars_HeuristicForAll(price, currency, usd_ars, misprice_ars_threshold) ==
    IF price = NONE THEN Result(NoneNum, NoneNum, NoneStr)
    ELSE IF Cur(currency) = USD THEN Result(Rat(price * usd_ars, 1), Rat(price, 1), USD)
    ELSE IF price < misprice_ars_threshold
    THEN Result(Rat(price * usd_ars, 1), Rat(price, 1), USD_STAR)
    ELSE Result(Rat(price, 1), Rat(price, usd_ars), Cur(currency))

\* normalize_price_ars(price, currency, usd_ars, misprice_ars_threshold):
\* (price_ars, price_usd, assumed_currency)
normalize_price_ars(price, currency, usd_ars, misprice_ars_threshold) ==
    IF price = NONE THEN Result(NoneNum, NoneNum, NoneStr)
    ELSE IF price = NAN
    THEN \* float("nan") is not None: nan * r and nan / r are nan, nan < threshold is False
         Result(NoneNum, NoneNum, Cur(currency))
    ELSE IF Cur(currency) = USD THEN Result(Rat(price * usd_ars, 1), Rat(price, 1), USD)
    ELSE IF Cur(currency) = ARS
    THEN IF price < misprice_ars_threshold
         THEN Result(Rat(price * usd_ars, 1), Rat(price, 1), USD_STAR)
         ELSE Result(Rat(price, 1), Rat(price, usd_ars), ARS)
    ELSE Result(Rat(price, 1), Rat(price, usd_ars), Cur(currency))

InitPrice ==
    /\ RunIdle /\ GbIdle /\ OrdIdle /\ NetIdle
    /\ np_pc = "in"
    /\ np_in \in [price : Prices, currency : Currencies, usd_ars : Rates,
                  misprice_ars_threshold : Thresholds]
    /\ np_out = <<>>

\* the call of line 501 on one record
Normalize ==
    /\ np_pc = "in"
    /\ np_out' = normalize_price_ars(np_in.price, np_in.currency, np_in.usd_ars,
                                     np_in.misprice_ars_threshold)
    /\ np_pc' = "out"
    /\ UNCHANGED <<np_in, runVars, gbVars, ordVars, netVars>>

NextPrice == Normalize

SpecPrice == InitPrice /\ [][NextPrice]_vars

\* equality of two floats that are not None
RatEq(a, b) == a.d > 0 /\ b.d > 0 /\ a.n * b.d = b.n * a.d

\* C6: with currency ARS and a price strictly below the threshold the result is
\* (price x rate, price, "USD*"); 50000 with threshold 200000 and rate 1350 gives
\* price_ars 67,500,000 and price_usd 50000.
C6_MispriceHeuristic ==
    (np_pc = "out" /\ np_in.currency = ARS /\ np_in.price # NONE
        /\ np_in.price < np_in.misprice_ars_threshold)
    => /\ RatEq(np_out.price_ars, Rat(np_in.price * np_in.usd_ars, 1))
       /\ RatEq(np_out.price_usd, Rat(np_in.price, 1))
       /\ np_out.assumed_currency = USD_STAR
       /\ (np_in.price = 50000 /\ np_in.usd_ars = 1350)
            => (RatEq(np_out.price_ars, Rat(67500000, 1))
                /\ RatEq(np_out.price_usd, Rat(50000, 1)))

\* the example of the specification, evaluated
C6_Witness ==
    /\ np_pc = "out"
    /\ np_in = [price |-> 50000, currency |-> ARS, usd_ars |-> 1350,
                misprice_ars_threshold |-> 200000]
    /\ np_out = Result(Rat(67500000, 1), Rat(50000, 1), USD_STAR)

\* C7: with currency ARS and a price not below the threshold (equal to it included) the
\* result is (price, price / rate, "ARS"): the price is not multiplied by the rate.
C7_ArsAtOrAboveThreshold ==
    (np_pc = "out" /\ np_in.currency = ARS /\ np_in.price # NONE
        /\ np_in.price >= np_in.misprice_ars_threshold)
    => /\ RatEq(np_out.price_ars, Rat(np_in.price, 1))
       /\ RatEq(np_out.price_usd, Rat(np_in.price, np_in.usd_ars))
       /\ np_out.assumed_currency = ARS

\* a price equal to the threshold, with a rate that would change it
C7_Witness ==
    /\ np_pc = "out"
    /\ np_in.currency = ARS
    /\ np_in.price = np_in.misprice_ars_threshold
    /\ np_in.usd_ars = DefaultRate
    /\ np_out.assumed_currency = ARS

\* C8: with currency USD and any rate > 0 the result is (price x rate, price, "USD")
\* whatever the threshold, so price_ars / rate = price_usd.
C8_UsdRoundTrip ==
    (np_pc = "out" /\ np_in.currency = USD /\ np_in.price # NONE /\ np_in.usd_ars > 0)
    => /\ RatEq(np_out.price_ars, Rat(np_in.price * np_in.usd_ars, 1))
       /\ RatEq(np_out.price_usd, Rat(np_in.price, 1))
       /\ np_out.assumed_currency = USD
       /\ RatEq(Rat(np_out.price_ars.n, np_out.price_ars.d * np_in.usd_ars), np_out.price_usd)

\* USD prices on both sides of the threshold
C8_Witness ==
    /\ np_pc = "out"
    /\ np_in.currency = USD
    /\ np_in.usd_ars = DefaultRate
    /\ np_in.price >= np_in.misprice_ars_threshold
    /\ np_out.price_ars.n = np_in.price * DefaultRate

\* a currency that is given and is neither ARS nor USD, in any case of letters
OtherCurrency(c) == ~Falsy(c) /\ str_upper(c) \notin {ARS, USD}

\* C9 as stated: for a currency that is neither ARS nor USD the result is
\* (price, price / rate) and the tag is the currency string as it was on the record.
C9_TagIsOriginalString ==
    (np_pc = "out" /\ OtherCurrency(np_in.currency) /\ np_in.price # NONE)
    => /\ RatEq(np_out.price_ars, Rat(np_in.price, 1))
       /\ RatEq(np_out.price_usd, Rat(np_in.price, np_in.usd_ars))
       /\ np_out.assumed_currency = np_in.currency

\* C9 amended: for a currency that is neither ARS nor USD the result is
\* (price, price / rate), below the threshold too, and the tag is the currency string
\* in upper case.
C9_TagIsUpperCased ==
    (np_pc = "out" /\ OtherCurrency(np_in.currency) /\ np_in.price # NONE)
    => /\ RatEq(np_out.price_ars, Rat(np_in.price, 1))
       /\ RatEq(np_out.price_usd, Rat(np_in.price, np_in.usd_ars))
       /\ np_out.assumed_currency = str_upper(np_in.currency)

\* a lower-case currency with a price below the threshold
C9_Witness ==
    /\ np_pc = "out"
    /\ np_in.currency = <<"e", "u", "r">>
    /\ np_in.price # NONE /\ np_in.price > 0
    /\ np_in.price < np_in.misprice_ars_threshold
    /\ np_in.usd_ars = DefaultRate
    /\ np_out.assumed_currency = <<"E", "U", "R">>
    /\ np_out.price_ars.n = np_in.price

\* what the ARS branches give: below the threshold the price is taken as dollars
ArsResult(price, usd_ars, misprice_ars_threshold) ==
    IF price < misprice_ars_threshold
    THEN Result(Rat(price * usd_ars, 1), Rat(price, 1), USD_STAR)
    ELSE Result(Rat(price, 1), Rat(price, usd_ars), ARS)

\* C27: a priced record whose currency is None or "" gets the result of an ARS
\* record, the misprice heuristic included (below the threshold: price * rate,
\* tag "USD*"); "ars" gets that result too, and "usd" gets the USD result
\* (price * rate, price, "USD").
C27_NoCurrencyIsArs ==
    (np_pc = "out" /\ np_in.price # NONE)
    => /\ (Falsy(np_in.currency) \/ np_in.currency = <<"a", "r", "s">>)
            => np_out = ArsResult(np_in.price, np_in.usd_ars, np_in.misprice_ars_threshold)
       /\ np_in.currency = <<"u", "s", "d">>
            => np_out = Result(Rat(np_in.price * np_in.usd_ars, 1), Rat(np_in.price, 1), USD)

\* a record without currency priced below the threshold, tagged "USD*"
C27_Witness ==
    /\ np_pc = "out"
    /\ np_in.currency = NoneStr
    /\ np_in.price # NONE /\ np_in.price > 0
    /\ np_in.price < np_in.misprice_ars_threshold
    /\ np_in.usd_ars = DefaultRate
    /\ np_out.assumed_currency = USD_STAR
    /\ np_out.price_ars = Rat(np_in.price * DefaultRate, 1)

-----------------------------------------------------------------------------
(* Comparables: build_groups_by_keys on comp_base *)

MaxDfRows == 5
MaxMinGroup == 3

TitleA == <<"a">>
TitleB == <<"b">>
NA_KEY == <<"_", "_", "N", "A", "_", "_">>

GroupRow(title_group, year, price_ars) ==
    [title_group |-> title_group, year |-> year, price_ars |-> price_ars]

\* rows of df_filtered: two titles, two years, two prices, and a row with each of
\* title_group, year and price_ars missing
GroupRows ==
    { GroupRow(TitleA, YearLo + 1, 3500000),
      GroupRow(TitleA, YearLo + 1, 4200000),
      GroupRow(TitleB, YearLo + 1, 3500000),
      GroupRow(TitleA, YearLo, 3500000),
      GroupRow(NoneStr, YearLo + 1, 3500000),
      GroupRow(TitleA, NONE, 3500000),
      GroupRow(TitleA, YearLo + 1, NONE) }

\* the slider "Mínimo publicaciones por grupo"
MinGroupSizes == 2..MaxMinGroup

Digit == [d \in 0..9 |->
            CASE d = 0 -> "0" [] d = 1 -> "1" [] d = 2 -> "2" [] d = 3 -> "3" [] d = 4 -> "4"
              [] d = 5 -> "5" [] d = 6 -> "6" [] d = 7 -> "7" [] d = 8 -> "8" [] d = 9 -> "9"]

\* str(n) for n >= 0
RECURSIVE int_str(_)
int_str(n) == IF n < 10 THEN <<Digit[n]>> ELSE Append(int_str(n \div 10), Digit[n % 10])

\* the grouping key without the year: key_cols = ["title_group"]
KeyCols_TitleOnly(row) ==
    <<IF row.title_group = NoneStr THEN NA_KEY ELSE row.title_group, NA_KEY>>

\* tmp[c].astype(object).where(pd.notna(tmp[c]), "__NA__").astype(str), for the two keys
KeyCols(row) ==
    <<IF row.title_group = NoneStr THEN NA_KEY ELSE row.title_group,
      IF row.year = NONE THEN NA_KEY ELSE int_str(row.year)>>

\* the rows of the table selected by a predicate on their index, in order
RECURSIVE Filter(_, _)
Filter(tbl, keep) ==
    IF tbl = <<>> THEN <<>>
    ELSE LET n == Len(tbl)
             init == Filter(SubSeq(tbl, 1, n - 1), keep)
         IN  IF n \in keep THEN Append(init, tbl[n]) ELSE init

\* df.dropna(subset=["title_group", "year", "price_ars"])
dropna(tbl) ==
    Filter(tbl, {i \in 1..Len(tbl) :
                  tbl[i].title_group # NoneStr /\ tbl[i].year # NONE /\ tbl[i].price_ars # NONE})

\* the sum of the non-null price_ars of the rows of the table with key k
RECURSIVE GroupSum(_, _)
GroupSum(tbl, k) ==
    IF tbl = <<>> THEN 0
    ELSE LET n == Len(tbl) IN
         GroupSum(SubSeq(tbl, 1, n - 1), k)
         + (IF KeyCols(tbl[n]) = k /\ tbl[n].price_ars # NONE THEN tbl[n].price_ars ELSE 0)

\* groupby(kcols)["price_ars"].agg(group_n="count"): the non-null prices of the group
GroupCount(tbl, k) ==
    Cardinality({i \in 1..Len(tbl) : KeyCols(tbl[i]) = k /\ tbl[i].price_ars # NONE})

\* groupby(kcols)["price_ars"].agg(group_mean_ars="mean")
GroupMean(tbl, k) ==
    IF GroupCount(tbl, k) = 0 THEN NoneNum ELSE Rat(GroupSum(tbl, k), GroupCount(tbl, k))

\* a row of tmp.merge(g_valid, on=kcols): its own columns and the two of its group
WithGroup(tbl, row) ==
    [c \in DOMAIN row \cup {"group_mean_ars", "group_n"} |->
        CASE c = "group_mean_ars" -> GroupMean(tbl, KeyCols(row))
          [] c = "group_n" -> GroupCount(tbl, KeyCols(row))
          [] OTHER -> row[c]]

\* build_groups_by_keys with `group_n > min_group_size`
build_groups_by_keys_Strict(tbl, min_group_size) ==
    LET valid == {i \in 1..Len(tbl) : GroupCount(tbl, KeyCols(tbl[i])) > min_group_size}
        kept == Filter(tbl, valid)
    IN  [merged |-> [i \in 1..Len(kept) |-> WithGroup(tbl, kept[i])],
         stats |-> [ok |-> TRUE,
                    groups |-> Cardinality({KeyCols(kept[i]) : i \in 1..Len(kept)}),
                    rows |-> Len(kept),
                    min_group_size |-> min_group_size]]

\* build_groups_by_keys with how="left": the rows of the discarded groups stay, without
\* statistics
build_groups_by_keys_LeftMerge(tbl, min_group_size) ==
    LET valid == {i \in 1..Len(tbl) : GroupCount(tbl, KeyCols(tbl[i])) >= min_group_size}
    IN  [merged |-> [i \in 1..Len(tbl) |->
                        IF i \in valid THEN WithGroup(tbl, tbl[i])
                        ELSE [c \in DOMAIN tbl[i] \cup {"group_mean_ars", "group_n"} |->
                                 CASE c = "group_mean_ars" -> NoneNum
                                   [] c = "group_n" -> NONE
                                   [] OTHER -> tbl[i][c]]],
         stats |-> [ok |-> TRUE,
                    groups |-> Cardinality({KeyCols(tbl[i]) : i \in valid}),
                    rows |-> Len(tbl),
                    min_group_size |-> min_group_size]]

\* build_groups_by_keys(df, ["title_group", "year"], min_group_size): (merged, stats)
build_groups_by_keys(tbl, min_group_size) ==
    LET valid == {i \in 1..Len(tbl) : GroupCount(tbl, KeyCols(tbl[i])) >= min_group_size}
        kept == Filter(tbl, valid)
    IN  [merged |-> [i \in 1..Len(kept) |-> WithGroup(tbl, kept[i])],
         stats |-> [ok |-> TRUE,
                    groups |-> Cardinality({KeyCols(kept[i]) : i \in 1..Len(kept)}),
                    rows |-> Len(kept),
                    min_group_size |-> min_group_size]]

InitGroups ==
    /\ RunIdle /\ NpIdle /\ OrdIdle /\ NetIdle
    /\ gb_pc = "in"
    /\ gb_df \in SeqsUpTo(GroupRows, MaxDfRows)
    /\ gb_min \in MinGroupSizes
    /\ comp_best = <<>>
    /\ pct_threshold = 0 /\ opp = <<>>

\* step 8 of the run block: comp_base and comp_best
Comparables ==
    /\ gb_pc = "in"
    /\ comp_best' = build_groups_by_keys(dropna(gb_df), gb_min).merged
    /\ gb_pc' = "out"
    /\ UNCHANGED <<gb_df, gb_min, pct_threshold, opp, runVars, npVars, ordVars, netVars>>

NextGroups == Comparables

SpecGroups == InitGroups /\ [][NextGroups]_vars

\* the records that enter the grouping: title_group, year and price_ars all present
IsGroupingInput(row) ==
    row.title_group # NoneStr /\ row.year # NONE /\ row.price_ars # NONE

\* the number of grouping-input records of the table with the key (title_group, year) of row
Members(tbl, row) ==
    Cardinality({i \in 1..Len(tbl) :
                    /\ IsGroupingInput(tbl[i])
                    /\ tbl[i].title_group = row.title_group
                    /\ tbl[i].year = row.year})

\* the rows of the comparable table with the key (title_group, year) of row
RowsOf(table, row) ==
    {i \in 1..Len(table) :
        table[i].title_group = row.title_group /\ table[i].year = row.year}

\* C10: a (title_group, year) group is kept iff it has at least min_group_size members:
\* with min_group_size - 1 members it has no row in the comparable table, with exactly
\* min_group_size members it has all its rows there, each with group_n = min_group_size.
C10_GroupThreshold ==
    gb_pc = "out" =>
        \A i \in 1..Len(gb_df) :
            IsGroupingInput(gb_df[i]) =>
                LET m == Members(gb_df, gb_df[i])
                    rows == RowsOf(comp_best, gb_df[i])
                IN  /\ (m >= gb_min) <=> (rows # {})
                    /\ (m = gb_min - 1) => (rows = {})
                    /\ (m = gb_min) =>
                          /\ Cardinality(rows) = gb_min
                          /\ \A j \in rows : comp_best[j].group_n = gb_min

\* one group with exactly min_group_size members, kept, beside one with one member less
C10_Witness ==
    /\ gb_pc = "out"
    /\ \E i, j \in 1..Len(gb_df) :
        /\ IsGroupingInput(gb_df[i]) /\ IsGroupingInput(gb_df[j])
        /\ Members(gb_df, gb_df[i]) = gb_min
        /\ Members(gb_df, gb_df[j]) = gb_min - 1
        /\ Cardinality(RowsOf(comp_best, gb_df[i])) = gb_min
        /\ RowsOf(comp_best, gb_df[j]) = {}

\* the grouping-input records of the table with the key (title_group, year) of row
MemberIdx(tbl, row) ==
    {i \in 1..Len(tbl) :
        /\ IsGroupingInput(tbl[i])
        /\ tbl[i].title_group = row.title_group
        /\ tbl[i].year = row.year}

\* the sum of price_ars over the rows idx of the table
RECURSIVE SumPrices(_, _)
SumPrices(tbl, idx) ==
    IF idx = {} THEN 0
    ELSE LET i == CHOOSE i \in idx : TRUE
         IN  tbl[i].price_ars + SumPrices(tbl, idx \ {i})

\* C11: every row of the comparable table has group_n equal to the number of
\* grouping-input records (title_group, year and price_ars all present) with its
\* (title_group, year), and group_mean_ars equal to the sum of their price_ars
\* divided by group_n.
C11_GroupStatistics ==
    gb_pc = "out" =>
        \A j \in 1..Len(comp_best) :
            LET idx == MemberIdx(gb_df, comp_best[j])
            IN  /\ comp_best[j].group_n = Cardinality(idx)
                /\ RatEq(comp_best[j].group_mean_ars,
                         Rat(SumPrices(gb_df, idx), Cardinality(idx)))

\* a kept group of two prices, 3,500,000 and 4,200,000 (mean 3,850,000), in a table
\* that also has a record of the same title and year without price and a record of
\* the same title with another year
C11_Witness ==
    /\ gb_pc = "out"
    /\ \E j \in 1..Len(comp_best) :
        /\ comp_best[j].group_n = 2
        /\ comp_best[j].price_ars = 3500000
        /\ RatEq(comp_best[j].group_mean_ars, Rat(3850000, 1))
        /\ \E i, k \in 1..Len(gb_df) :
            /\ gb_df[i].title_group = comp_best[j].title_group
            /\ gb_df[i].year = comp_best[j].year
            /\ gb_df[i].price_ars = NONE
            /\ gb_df[k].title_group = comp_best[j].title_group
            /\ gb_df[k].year \notin {NONE, comp_best[j].year}
            /\ gb_df[k].price_ars # NONE

-----------------------------------------------------------------------------
(* Opportunities: undervalue_pct, the threshold and the order of the table *)

MaxOppRows == 4

\* float arithmetic on exact ratios; NaN is NoneNum, the infinities are Rat(1, 0), Rat(-1, 0)
IsNaN(a) == a.d = 0 /\ a.n = 0

Abs(x) == IF x < 0 THEN -x ELSE x

RECURSIVE GCD(_, _)
GCD(a, b) == IF b = 0 THEN a ELSE GCD(b, a % b)

\* n / d in lowest terms, d > 0
RatNorm(n, d) == LET g == GCD(Abs(n), d) IN Rat(n \div g, d \div g)

\* a - b
RatSub(a, b) ==
    IF a.d = 0 \/ b.d = 0 THEN NoneNum ELSE RatNorm(a.n * b.d - b.n * a.d, a.d * b.d)

\* a / b on finite floats: x / 0 is NaN for x = 0 and an infinity of the sign of x otherwise
RatDiv(a, b) ==
    IF a.d = 0 \/ b.d = 0 THEN NoneNum
    ELSE IF b.n = 0 THEN Rat(IF a.n > 0 THEN 1 ELSE IF a.n < 0 THEN -1 ELSE 0, 0)
    ELSE IF b.n > 0 THEN RatNorm(a.n * b.d, a.d * b.n)
    ELSE RatNorm(-(a.n * b.d), a.d * (-b.n))

\* a * k for an integer k > 0
RatTimes(a, k) == IF a.d = 0 THEN a ELSE RatNorm(a.n * k, a.d)

\* a <= b for two values that are not NaN
RatLe(a, b) ==
    IF a.d = 0 \/ b.d = 0
    THEN (a.d = 0 /\ a.n < 0) \/ (b.d = 0 /\ b.n > 0) \/ a = b
    ELSE a.n * b.d <= b.n * a.d

\* a >= b: False when either is NaN
RatGe(a, b) == ~IsNaN(a) /\ ~IsNaN(b) /\ RatLe(b, a)

\* the _permalink_key of the i-th row of df: the keys of df are distinct (line 497)
OppKey(i) == <<"h", ":", "/", "/", "m", "/">> \o int_str(i)

\* (title_group, price_ars) of the rows of df_filtered: a group of 200,000 and 300,000,
\* a group of 400,000 and 600,000, a price of 0 and a missing price
OppCells ==
    { <<TitleA, 200000>>, <<TitleA, 300000>>, <<TitleA, NONE>>,
      <<TitleB, 400000>>, <<TitleB, 600000>>, <<TitleB, 0>> }

OppRow(i, cell) ==
    [_permalink_key |-> OppKey(i), title_group |-> cell[1], year |-> YearLo,
     price_ars |-> cell[2]]

OppTables ==
    UNION { { [i \in 1..n |-> OppRow(i, f[i])] : f \in [1..n -> OppCells] } : n \in 0..MaxOppRows }

\* the slider "% por debajo del promedio del grupo", 5 to 60
PctThresholds == {5, 20, 21, 60}

\* diff_ars as price_ars - group_mean_ars
diff_ars_Reversed(row) == RatSub(Rat(row.price_ars, 1), row.group_mean_ars)

\* comp_best["diff_ars"] and comp_best["undervalue_pct"] of one row
diff_ars(row) == RatSub(row.group_mean_ars, Rat(row.price_ars, 1))

undervalue_pct(row) == RatTimes(RatDiv(diff_ars(row), row.group_mean_ars), 100)

WithUndervalue(row) ==
    [c \in DOMAIN row \cup {"diff_ars", "undervalue_pct"} |->
        CASE c = "diff_ars" -> diff_ars(row)
          [] c = "undervalue_pct" -> undervalue_pct(row)
          [] OTHER -> row[c]]

\* comp_best["undervalue_pct"] > pct_threshold
IsOpportunity_Strict(row, th) ==
    ~IsNaN(row.undervalue_pct) /\ ~RatLe(row.undervalue_pct, Rat(th, 1))

\* comp_best["undervalue_pct"] >= pct_threshold
IsOpportunity(row, th) == RatGe(row.undervalue_pct, Rat(th, 1))

\* ascending=[False, False]
Before_PriceDescending(a, b) ==
    IF IsNaN(a.undervalue_pct) \/ IsNaN(b.undervalue_pct)
    THEN ~IsNaN(a.undervalue_pct) /\ IsNaN(b.undervalue_pct)
    ELSE \/ ~RatLe(a.undervalue_pct, b.undervalue_pct)
         \/ a.undervalue_pct = b.undervalue_pct /\ a.price_ars > b.price_ars

\* the order of by=["undervalue_pct", "price_ars"], ascending=[False, True], NaN last
Before(a, b) ==
    IF IsNaN(a.undervalue_pct) \/ IsNaN(b.undervalue_pct)
    THEN ~IsNaN(a.undervalue_pct) /\ IsNaN(b.undervalue_pct)
    ELSE \/ ~RatLe(a.undervalue_pct, b.undervalue_pct)
         \/ a.undervalue_pct = b.undervalue_pct /\ a.price_ars < b.price_ars

\* sort_values: rows equal in both columns keep their order
RECURSIVE sort_values(_)
sort_values(tbl) ==
    IF tbl = <<>> THEN <<>>
    ELSE LET n == Len(tbl)
             init == sort_values(SubSeq(tbl, 1, n - 1))
             k == Cardinality({i \in 1..Len(init) : ~Before(tbl[n], init[i])})
         IN  SubSeq(init, 1, k) \o <<tbl[n]>> \o SubSeq(init, k + 1, Len(init))

InitOpp ==
    /\ RunIdle /\ NpIdle /\ OrdIdle /\ NetIdle
    /\ gb_pc = "in"
    /\ gb_df \in OppTables
    /\ gb_min \in MinGroupSizes
    /\ pct_threshold \in PctThresholds
    /\ comp_best = <<>>
    /\ opp = <<>>

\* `if comp_best.empty:` st.info, st.stop()
NoComparables ==
    /\ gb_pc = "out"
    /\ comp_best = <<>>
    /\ gb_pc' = "stopped"
    /\ UNCHANGED <<gb_df, gb_min, comp_best, pct_threshold, opp, runVars, npVars, ordVars, netVars>>

\* step 9 of the run block: the two columns, the de-dupe by aviso, opp filtered and sorted
Opportunities ==
    /\ gb_pc = "out"
    /\ comp_best # <<>>
    /\ LET table == drop_duplicates([j \in 1..Len(comp_best) |-> WithUndervalue(comp_best[j])])
       IN  /\ comp_best' = table
           /\ opp' = sort_values(Filter(table, {j \in 1..Len(table) :
                                                  IsOpportunity(table[j], pct_threshold)}))
    /\ gb_pc' = "opp"
    /\ UNCHANGED <<gb_df, gb_min, pct_threshold, runVars, npVars, ordVars, netVars>>

NextOpp == Comparables \/ NoComparables \/ Opportunities

SpecOpp == InitOpp /\ [][NextOpp]_vars

\* the rows of a table with the _permalink_key of row
WithKey(table, row) ==
    {j \in 1..Len(table) : table[j]._permalink_key = row._permalink_key}

\* the sum of the prices of the group of row in df_filtered, and its size
GroupTotal(row) == SumPrices(gb_df, MemberIdx(gb_df, row))
GroupSize(row) == Cardinality(MemberIdx(gb_df, row))

\* C12: a record of the comparable table (of a group whose mean is not zero) is in the
\* opportunity table iff (group_mean_ars - price_ars) / group_mean_ars x 100 >=
\* pct_threshold, equality included; with sum S > 0 and size n of its group that is
\* (S - n x price_ars) x 100 >= pct_threshold x S.
C12_InclusiveThreshold ==
    gb_pc = "opp" =>
        \A j \in 1..Len(comp_best) :
            GroupTotal(comp_best[j]) > 0 =>
                ( WithKey(opp, comp_best[j]) # {}
                  <=> (GroupTotal(comp_best[j]) - GroupSize(comp_best[j]) * comp_best[j].price_ars) * 100
                        >= pct_threshold * GroupTotal(comp_best[j]) )

\* 200,000 in a group of mean 250,000 is exactly 20 % below: in the table with the
\* slider on 20, beside a comparable below the threshold that is not in it
C12_Witness ==
    /\ gb_pc = "opp"
    /\ pct_threshold = 20
    /\ \E i, j \in 1..Len(comp_best) :
        /\ comp_best[i].price_ars = 200000
        /\ RatEq(comp_best[i].group_mean_ars, Rat(250000, 1))
        /\ WithKey(opp, comp_best[i]) # {}
        /\ GroupTotal(comp_best[j]) > 0
        /\ WithKey(opp, comp_best[j]) = {}

\* C13 as stated: no row of the comparable table has a group mean of zero, and none
\* has an undefined undervalue_pct.
C13_NoZeroMeanRow ==
    gb_pc \in {"out", "opp"} =>
        \A j \in 1..Len(comp_best) :
            /\ comp_best[j].group_mean_ars.n # 0
            /\ gb_pc = "opp" => ~IsNaN(comp_best[j].undervalue_pct)

\* C14: a record of a group with fewer than min_group_size members has no row in the
\* comparable table nor in the opportunity table; a record of a group with at least
\* min_group_size members has exactly one row in the comparable table, with its own
\* price and the size and the mean of its group.
C14_InnerJoin ==
    gb_pc \in {"out", "opp", "stopped"} =>
        \A i \in 1..Len(gb_df) :
            IsGroupingInput(gb_df[i]) =>
                IF GroupSize(gb_df[i]) < gb_min
                THEN WithKey(comp_best, gb_df[i]) = {} /\ WithKey(opp, gb_df[i]) = {}
                ELSE /\ Cardinality(WithKey(comp_best, gb_df[i])) = 1
                     /\ \A j \in WithKey(comp_best, gb_df[i]) :
                          /\ comp_best[j].price_ars = gb_df[i].price_ars
                          /\ comp_best[j].title_group = gb_df[i].title_group
                          /\ comp_best[j].group_n = GroupSize(gb_df[i])
                          /\ RatEq(comp_best[j].group_mean_ars,
                                   Rat(GroupTotal(gb_df[i]), GroupSize(gb_df[i])))

\* with min_group_size 3, a surviving group of three beside a record of a smaller group
C14_Witness ==
    /\ gb_pc = "opp"
    /\ gb_min = 3
    /\ Len(comp_best) = 3
    /\ \E i \in 1..Len(gb_df) :
        /\ IsGroupingInput(gb_df[i])
        /\ GroupSize(gb_df[i]) < gb_min
        /\ WithKey(comp_best, gb_df[i]) = {}

\* C20: the opportunity table is in descending order of undervalue_pct, and rows of
\* equal undervalue_pct are in ascending order of price_ars.
C20_OpportunityOrder ==
    gb_pc = "opp" =>
        \A i, j \in 1..Len(opp) :
            i < j =>
                /\ opp[i].undervalue_pct.n * opp[j].undervalue_pct.d
                     >= opp[j].undervalue_pct.n * opp[i].undervalue_pct.d
                /\ opp[i].undervalue_pct.n * opp[j].undervalue_pct.d
                     = opp[j].undervalue_pct.n * opp[i].undervalue_pct.d
                   => opp[i].price_ars <= opp[j].price_ars

\* two opportunities exactly 20 % below their groups, 400,000 met before 200,000 in the
\* comparable table and after it in the opportunity table
C20_Witness ==
    /\ gb_pc = "opp"
    /\ Len(opp) = 2
    /\ opp[1].price_ars = 200000 /\ opp[2].price_ars = 400000
    /\ opp[1].undervalue_pct = opp[2].undervalue_pct
    /\ \E i, j \in 1..Len(comp_best) :
        /\ i < j
        /\ comp_best[i]._permalink_key = opp[2]._permalink_key
        /\ comp_best[j]._permalink_key = opp[1]._permalink_key

-----------------------------------------------------------------------------
(* canonicalize_ml_url *)

\* `sub in s` on two strings
Contains(s, sub) ==
    \E i \in 1..(Len(s) - Len(sub) + 1) : SubSeq(s, i, i + Len(sub) - 1) = sub

\* the whole of t matches /_Desde_\d+/? with re.IGNORECASE
MatchesOffset(t) ==
    /\ Len(t) > 8
    /\ str_lower(SubSeq(t, 1, 8)) = <<"/", "_", "d", "e", "s", "d", "e", "_">>
    /\ LET last == IF t[Len(t)] = "/" THEN Len(t) - 1 ELSE Len(t)
       IN  last > 8 /\ \A i \in 9..last : t[i] \in {Digit[d] : d \in 0..9}

\* re.sub(r"/_Desde_\d+/?$", "", canon, flags=re.IGNORECASE): the match ends the string
StripOffset(canon) ==
    LET starts == {i \in 1..Len(canon) : MatchesOffset(SubSeq(canon, i, Len(canon)))}
    IN  IF starts = {} THEN canon
        ELSE SubSeq(canon, 1, (CHOOSE i \in starts : \A j \in starts : i <= j) - 1)

\* the test of line 136 on r.url
VerificationUrl(url) ==
    \/ Contains(url, <<"a", "c", "c", "o", "u", "n", "t", "-", "v", "e", "r", "i", "f", "i", "c", "a", "t", "i", "o", "n">>)
    \/ Contains(url, <<"/", "g", "z", "/">>) /\ Contains(url, <<"v", "e", "r", "i", "f", "i", "c", "a", "t", "i", "o", "n">>)

PlainUrl == <<"h", ":", "/", "/", "m", "/", "a">>
OffsetUrl == <<"h", ":", "/", "/", "m", "/", "a", "/", "_", "D", "e", "s", "d", "e", "_", "4", "9">>
TwoOffsetsUrl == <<"h", ":", "/", "/", "m", "/", "a", "/", "_", "D", "e", "s", "d", "e", "_", "4", "9", "/", "_", "D", "e", "s", "d", "e", "_", "9", "7">>

\* the argument u: a search address, with and without an offset segment
SeedUrls == {PlainUrl, OffsetUrl}

\* r.url after the redirects
FinalUrls ==
    { PlainUrl, OffsetUrl, TwoOffsetsUrl,
      <<"h", ":", "/", "/", "m", "/", "a", "/", "_", "d", "e", "s", "d", "e", "_", "4", "9", "/">>,
      <<"h", ":", "/", "/", "m", "/", "a", "/", "_", "D", "e", "s", "d", "e", "_", "4", "9", "?", "t">>,
      <<"h", ":", "/", "/", "m", "/", "a", "c", "c", "o", "u", "n", "t", "-", "v", "e", "r", "i", "f", "i", "c", "a", "t", "i", "o", "n">>,
      <<"h", ":", "/", "/", "m", "/", "g", "z", "/", "v", "e", "r", "i", "f", "i", "c", "a", "t", "i", "o", "n">>,
      <<"h", ":", "/", "/", "m", "/", "g", "z", "/", "a">>,
      <<"h", ":", "/", "/", "m", "/", "v", "e", "r", "i", "f", "i", "c", "a", "t", "i", "o", "n">> }

\* what requests.get does: it raises e, or returns r with r.status_code, r.url and a
\* body that shows a verification challenge or not
GetOutcomes ==
    [raised : {TRUE}, error : {<<"t", "i", "m", "e", "o", "u", "t">>}, status_code : {NONE}, url : {NoneStr},
     challenge_body : {FALSE}]
    \cup [raised : {FALSE}, error : {NoneStr}, status_code : {200, 403}, url : FinalUrls,
          challenge_body : BOOLEAN]

Meta(verification, status, final_url) ==
    [verification |-> verification, status |-> status, final_url |-> final_url]

\* canonicalize_ml_url without the try: the error of requests.get reaches the caller
canonicalize_ml_url_NoTry(u, get) ==
    IF get.raised
    THEN [raised |-> TRUE, url |-> NoneStr, meta |-> Meta(FALSE, NONE, NoneStr)]
    ELSE IF VerificationUrl(get.url)
    THEN [raised |-> FALSE, url |-> u, meta |-> Meta(TRUE, get.status_code, get.url)]
    ELSE [raised |-> FALSE, url |-> StripOffset(get.url),
          meta |-> Meta(FALSE, get.status_code, get.url)]

\* canonicalize_ml_url(u, proxy_url, timeout) with the outcome of its GET: (url, meta),
\* and whether the call raised
canonicalize_ml_url(u, get) ==
    IF get.raised
    THEN [raised |-> FALSE, url |-> u,
          meta |-> Meta(FALSE, <<"e", "r", "r", "o", "r", ":", " ">> \o get.error, NoneStr)]
    ELSE IF VerificationUrl(get.url)
    THEN [raised |-> FALSE, url |-> u, meta |-> Meta(TRUE, get.status_code, get.url)]
    ELSE [raised |-> FALSE, url |-> StripOffset(get.url),
          meta |-> Meta(FALSE, get.status_code, get.url)]

InitCanon ==
    /\ RunIdle /\ NpIdle /\ GbIdle /\ OrdIdle /\ ScIdle
    /\ can_pc = "in"
    /\ can_in \in [u : SeedUrls, get : GetOutcomes]
    /\ can_out = <<>>

\* canonicalize_ml_url(u): can_out is the list of the results so far
Canonicalize ==
    /\ can_pc = "in"
    /\ can_out' = <<canonicalize_ml_url(can_in.u, can_in.get)>>
    /\ can_pc' = "out"
    /\ UNCHANGED <<can_in, scVars, runVars, npVars, gbVars, ordVars>>

\* canonicalize_ml_url on the address the first call returned, when the GET of that
\* address is answered without redirect, with status 200
CanonicalizeAgain ==
    /\ can_pc = "out"
    /\ LET url == can_out[1].url
           get == [raised |-> FALSE, error |-> NoneStr, status_code |-> 200, url |-> url,
                   challenge_body |-> FALSE]
       IN  can_out' = Append(can_out, canonicalize_ml_url(url, get))
    /\ can_pc' = "again"
    /\ UNCHANGED <<can_in, scVars, runVars, npVars, gbVars, ordVars>>

NextCanon == Canonicalize \/ CanonicalizeAgain

SpecCanon == InitCanon /\ [][NextCanon]_vars

\* C15 as stated: when the first call got an answer that is not a verification, a
\* second call on the address it returned, answered without redirect, returns the same
\* address: canonicalize(canonicalize(u)) = canonicalize(u).
C15_StripIdempotent ==
    (can_pc = "again" /\ ~can_in.get.raised /\ ~can_out[1].meta.verification)
    => can_out[2].url = can_out[1].url

\* C16 as stated: meta.verification is true whenever the final address or the body of
\* the answer shows a verification challenge, and meta.status and meta.final_url are
\* the status code and the final address of the answer.
C16_VerificationFlag ==
    (can_pc = "out" /\ ~can_in.get.raised)
    => /\ (VerificationUrl(can_in.get.url) \/ can_in.get.challenge_body)
            => can_out[1].meta.verification
       /\ can_out[1].meta.status = can_in.get.status_code
       /\ can_out[1].meta.final_url = can_in.get.url

\* C17: when requests.get raises, the call does not raise and returns u unchanged, with
\* meta.status = "error: " followed by the error, and meta.verification false.
C17_TransportError ==
    (can_pc = "out" /\ can_in.get.raised)
    => /\ ~can_out[1].raised
       /\ can_out[1].url = can_in.u
       /\ can_out[1].meta.status = <<"e", "r", "r", "o", "r", ":", " ">> \o can_in.get.error
       /\ can_out[1].meta.verification = FALSE

\* a timeout on an address with an offset segment: returned with the segment
C17_Witness ==
    /\ can_pc = "out"
    /\ can_in.get.raised
    /\ can_in.u = OffsetUrl
    /\ can_out[1].url = OffsetUrl
    /\ can_out[1].meta.status = <<"e", "r", "r", "o", "r", ":", " ", "t", "i", "m", "e", "o", "u", "t">>

-----------------------------------------------------------------------------
(* scrape_list of utils.scraper: the page fetcher and paginator *)

MaxPages == 3
MaxItems == 3
MaxCards == 2

\* the answer to the GET of one page: a transport failure (status 0), or a status, the
\* verification flag of the response and the cards its body holds
PageResponses ==
    [status : {0}, verification : {FALSE}, cards : {0}]
    \cup [status : {200, 403}, verification : BOOLEAN, cards : 0..MaxCards]

PageLog(page, status, items_found, verification) ==
    [page |-> page, status |-> status, items_found |-> items_found,
     verification |-> verification]

\* the first n cards of page `page`, as records
Cards(page, n) == [c \in 1..n |-> [page |-> page, card |-> c]]

Min(a, b) == IF a < b THEN a ELSE b

\* one page where the body is parsed before the outcome is looked at
FetchStep_ParseFirst(st, args, resp) ==
    LET batch == Cards(st.page, Min(resp.cards, args.max_items - Len(st.rows)))
        rows == st.rows \o batch
    IN  IF resp.status # 200 \/ resp.verification
        THEN [rows |-> rows,
              logs |-> Append(st.logs, PageLog(st.page, resp.status, Len(batch), resp.verification)),
              page |-> st.page, pc |-> "done"]
        ELSE [rows |-> rows,
              logs |-> Append(st.logs, PageLog(st.page, resp.status, Len(batch), FALSE)),
              page |-> st.page + 1,
              pc |-> IF Len(rows) >= args.max_items \/ st.page + 1 >= args.max_pages
                     THEN "done" ELSE "fetch"]

\* one iteration of the loop over the page indices 0..max_pages-1 on st = [rows, logs,
\* page, pc]: a non-200 status (0 for a transport failure) or a verification is logged
\* and halts; a success appends the page's records, cut to what is left of max_items
FetchStep(st, args, resp) ==
    IF resp.status # 200 \/ resp.verification
    THEN [rows |-> st.rows,
          logs |-> Append(st.logs, PageLog(st.page, resp.status, 0, resp.verification)),
          page |-> st.page, pc |-> "done"]
    ELSE LET batch == Cards(st.page, Min(resp.cards, args.max_items - Len(st.rows)))
             rows == st.rows \o batch
         IN  [rows |-> rows,
              logs |-> Append(st.logs, PageLog(st.page, resp.status, Len(batch), FALSE)),
              page |-> st.page + 1,
              pc |-> IF Len(rows) >= args.max_items \/ st.page + 1 >= args.max_pages
                     THEN "done" ELSE "fetch"]

InitScrape ==
    /\ RunIdle /\ NpIdle /\ GbIdle /\ OrdIdle /\ CanIdle
    /\ sc_pc = "fetch"
    /\ sc_in \in [max_items : 1..MaxItems, max_pages : 1..MaxPages]
    /\ sc_page = 0
    /\ sc_rows = <<>>
    /\ sc_logs = <<>>

\* the GET of the next page and what follows from its answer
FetchPage ==
    /\ sc_pc = "fetch"
    /\ \E resp \in PageResponses :
        LET st == FetchStep([rows |-> sc_rows, logs |-> sc_logs, page |-> sc_page,
                             pc |-> sc_pc], sc_in, resp)
        IN  /\ sc_rows' = st.rows
            /\ sc_logs' = st.logs
            /\ sc_page' = st.page
            /\ sc_pc' = st.pc
    /\ UNCHANGED <<sc_in, canVars, runVars, npVars, gbVars, ordVars>>

NextScrape == FetchPage

SpecScrape == InitScrape /\ [][NextScrape]_vars

\* C19: a page logged with the verification flag is the last page fetched of the
\* year, the pagination is over, and no record of the year comes from that page.
C19_VerificationHalts ==
    \A i \in 1..Len(sc_logs) :
        sc_logs[i].verification
        => /\ i = Len(sc_logs)
           /\ sc_pc = "done"
           /\ sc_logs[i].items_found = 0
           /\ \A j \in 1..Len(sc_rows) : sc_rows[j].page # sc_logs[i].page

\* the second page is flagged with pages and items still allowed: the records of the
\* first page are all there is
C19_Witness ==
    /\ sc_pc = "done"
    /\ Len(sc_logs) = 2
    /\ sc_logs[2].verification
    /\ sc_logs[2].status = 200
    /\ sc_in.max_pages > 2
    /\ sc_rows # <<>>
    /\ Len(sc_rows) < sc_in.max_items

-----------------------------------------------------------------------------
(* The run block from the table to the opportunities: prices, title keys, groups *)

MaxPipeRows == 3

\* the characters str.strip() and str.split() take for white space
Whitespace == {" ", "\t", "\n", "\r"}

RECURSIVE lstrip(_)
lstrip(s) == IF s # <<>> /\ Head(s) \in Whitespace THEN lstrip(Tail(s)) ELSE s

RECURSIVE rstrip(_)
rstrip(s) ==
    IF s # <<>> /\ s[Len(s)] \in Whitespace THEN rstrip(SubSeq(s, 1, Len(s) - 1)) ELSE s

\* str.strip()
str_strip(s) == lstrip(rstrip(s))

\* title_norm_exact passing a title of None on
title_norm_exact_KeepsNone(t) == IF t = NoneStr THEN NoneStr ELSE str_strip(t)

\* title_norm_exact(t): `(t or "").strip()`
title_norm_exact(t) == str_strip(IF Falsy(t) THEN <<>> ELSE t)

\* the five re.sub of the accented vowels
AccentFold == [c \in {"á", "à", "ä", "é", "è", "ë", "í", "ì", "ï", "ó", "ò", "ö", "ú", "ù", "ü"} |->
        CASE c \in {"á", "à", "ä"} -> "a"
          [] c \in {"é", "è", "ë"} -> "e"
          [] c \in {"í", "ì", "ï"} -> "i"
          [] c \in {"ó", "ò", "ö"} -> "o"
          [] c \in {"ú", "ù", "ü"} -> "u"]

\* the characters `[^a-z0-9 ]` leaves
LowerAlnumSpace ==
    {"a", "b", "c", "d", "e", "f", "g", "h", "i", "j", "k", "l", "m", "n", "o", "p", "q", "r", "s", "t", "u", "v", "w", "x", "y", "z",
     "0", "1", "2", "3", "4", "5", "6", "7", "8", "9", " "}

\* one character through the accent folding and `re.sub(r"[^a-z0-9 ]", " ", s)`
FoldChar(c) ==
    LET a == IF c \in DOMAIN AccentFold THEN AccentFold[c] ELSE c
    IN  IF a \in LowerAlnumSpace THEN a ELSE " "

\* `re.sub(r"\s+", " ", s)` on a string whose only white space is the blank
RECURSIVE CollapseBlanks(_)
CollapseBlanks(s) ==
    IF Len(s) < 2 THEN s
    ELSE IF s[1] = " " /\ s[2] = " " THEN CollapseBlanks(Tail(s))
    ELSE <<s[1]>> \o CollapseBlanks(Tail(s))

\* title_norm_aggressive(t): "" for a value that is not a str
title_norm_aggressive(t) ==
    IF t = NoneStr THEN <<>>
    ELSE LET s == str_lower(t)
         IN  str_strip(CollapseBlanks([i \in 1..Len(s) |-> FoldChar(s[i])]))

_STOPWORDS_DESC ==
    { <<"i", "m", "p", "e", "c", "a", "b", "l", "e">>,
      <<"e", "x", "c", "e", "l", "e", "n", "t", "e">>,
      <<"ú", "n", "i", "c", "o">>,
      <<"u", "n", "i", "c", "o">>,
      <<"d", "u", "e", "ñ", "o">>,
      <<"d", "u", "e", "n", "o">>,
      <<"d", "u", "e", "ñ", "o", " ", "u", "n", "i", "c", "o">>,
      <<"d", "u", "e", "n", "o", " ", "u", "n", "i", "c", "o">>,
      <<"p", "e", "r", "m", "u", "t", "o">>,
      <<"p", "e", "r", "m", "u", "t", "a">>,
      <<"u", "r", "g", "e", "n", "t", "e">>,
      <<"o", "p", "o", "r", "t", "u", "n", "i", "d", "a", "d">>,
      <<"f", "u", "l", "l">>,
      <<"p", "a", "c", "k">>,
      <<"c", "u", "e", "r", "o">>,
      <<"g", "n", "c">>,
      <<"n", "a", "f", "t", "a">>,
      <<"d", "i", "e", "s", "e", "l">>,
      <<"t", "d", "i">>,
      <<"t", "u", "r", "b", "o">>,
      <<"1", "6", "v">>,
      <<"v", "6">>,
      <<"v", "8">>,
      <<"f", "i", "n", "a", "n", "c", "i", "o">>,
      <<"f", "i", "n", "a", "n", "c", "i", "a", "c", "i", "o", "n">>,
      <<"u", "$", "s">>,
      <<"u", "s", "d">>,
      <<"d", "o", "l", "a", "r", "e", "s">>,
      <<"d", "ó", "l", "a", "r", "e", "s">>,
      <<"k", "m">>,
      <<"k", "m", "s">>,
      <<"k", "m", " ", "r", "e", "a", "l", "e", "s">>,
      <<"p", "o", "c", "o", " ", "u", "s", "o">>,
      <<"s", "e", "g", "u", "n", "d", "a", " ", "m", "a", "n", "o">>,
      <<"p", "r", "i", "m", "e", "r", " ", "d", "u", "e", "ñ", "o">>,
      <<"p", "r", "i", "m", "e", "r", " ", "d", "u", "e", "n", "o">> }

\* the end of the first word of a string that starts with one
WordEnd(s) ==
    LET ws == {i \in 1..Len(s) : s[i] \in Whitespace}
    IN  IF ws = {} THEN Len(s) ELSE (CHOOSE i \in ws : \A j \in ws : i <= j) - 1

\* str.split()
RECURSIVE str_split(_)
str_split(s) ==
    LET t == lstrip(s)
    IN  IF t = <<>> THEN <<>>
        ELSE <<SubSeq(t, 1, WordEnd(t))>> \o str_split(SubSeq(t, WordEnd(t) + 1, Len(t)))

\* " ".join(tokens)
RECURSIVE str_join(_)
str_join(tokens) ==
    IF tokens = <<>> THEN <<>>
    ELSE IF Len(tokens) = 1 THEN tokens[1]
    ELSE tokens[1] \o <<" ">> \o str_join(Tail(tokens))

IsKept(t) == t \notin _STOPWORDS_DESC

\* title_core(s): the normalised title without the descriptive words
title_core(s) ==
    LET n == title_norm_aggressive(s)
    IN  IF n = <<>> THEN n ELSE str_strip(str_join(SelectSeq(str_split(n), IsKept)))

Corolla == <<"t", "o", "y", "o", "t", "a", " ", "c", "o", "r", "o", "l", "l", "a">>
CorollaUsd == <<"t", "o", "y", "o", "t", "a", " ", "c", "o", "r", "o", "l", "l", "a", " ", "U", "S", "D">>

\* (title, price, currency) of the records of rows_all: three priced corollas, one of them
\* without price, one advertised in dollars, and two priced records without title
PipeCells ==
    { <<Corolla, 4000000, ARS>>, <<Corolla, 4200000, ARS>>, <<Corolla, 3500000, ARS>>,
      <<Corolla, NONE, ARS>>, <<CorollaUsd, 3000, USD>>,
      <<NoneStr, 3500000, ARS>>, <<<<>>, 4500000, NoneStr>> }

\* the i-th record of rows_all: the keys of the records are distinct (lines 462-469)
PipeRow(i, cell) ==
    [_permalink_key |-> OppKey(i), title |-> cell[1], year |-> YearLo + 1,
     price |-> cell[2], currency |-> cell[3]]

PipeTables ==
    UNION { { [i \in 1..n |-> PipeRow(i, f[i])] : f \in [1..n -> PipeCells] } :
            n \in 1..MaxPipeRows }

\* pd.DataFrame(rows_all): a column of numbers and None is a float column, its None
\* NaN; a column of None alone, and the columns of str and None, keep None
DataFrame(rows) ==
    [i \in 1..Len(rows) |->
        [rows[i] EXCEPT !.price =
            IF rows[i].price = NONE /\ (\E k \in 1..Len(rows) : rows[k].price # NONE)
            THEN NAN ELSE rows[i].price]]

\* the slider of the threshold at the value of the scenario and one above it
PipeThresholds == {10, 11}

\* pd.to_numeric on the price_ars of normalize_price_ars: NaN for None; the prices
\* and the rate are whole numbers, and so is price_ars
to_numeric(a) == IF a.d = 0 THEN NONE ELSE a.n \div a.d

\* a row of df after steps 3 and 4: the three columns of normalize_price_ars,
\* title_norm and title_group
Normalized(r, usd_ars, misprice_th, aggressive, use_title_core) ==
    LET extra == normalize_price_ars(r.price, r.currency, usd_ars, misprice_th)
        title_norm == IF aggressive THEN title_norm_aggressive(r.title)
                      ELSE title_norm_exact(r.title)
    IN  [c \in DOMAIN r \cup {"price_ars", "price_usd", "assumed_currency",
                               "title_norm", "title_group"} |->
            CASE c = "price_ars" -> to_numeric(extra.price_ars)
              [] c = "price_usd" -> extra.price_usd
              [] c = "assumed_currency" -> extra.assumed_currency
              [] c = "title_norm" -> title_norm
              [] c = "title_group" -> IF use_title_core THEN title_core(title_norm)
                                      ELSE title_norm
              [] OTHER -> r[c]]

\* the table of lines 492-497 is built from records drawn on their own, the loop that
\* collects them left aside; the two sliders of the groups are set
InitPipe ==
    /\ LoopIdle /\ NpIdle /\ OrdIdle /\ NetIdle
    /\ df \in {DataFrame(rows) : rows \in PipeTables}
    /\ gb_pc = "df"
    /\ gb_df = <<>>
    /\ gb_min \in MinGroupSizes
    /\ pct_threshold \in PipeThresholds
    /\ comp_best = <<>>
    /\ opp = <<>>

\* steps 3 to 5 of the run block, with the rate and the misprice threshold at their
\* defaults, either setting of the two check boxes and no brand or model text:
\* df_filtered is df
NormalizeTable ==
    /\ gb_pc = "df"
    /\ \E aggressive \in BOOLEAN, use_title_core \in BOOLEAN :
         gb_df' = [i \in 1..Len(df) |->
                     Normalized(df[i], DefaultRate, DefaultThreshold, aggressive, use_title_core)]
    /\ gb_pc' = "in"
    /\ UNCHANGED <<gb_min, comp_best, pct_threshold, opp, runVars, npVars, ordVars, netVars>>

NextPipe == NormalizeTable \/ Comparables \/ NoComparables \/ Opportunities

SpecPipe == InitPipe /\ [][NextPipe]_vars

\* the priced records of the listing with title_group "toyota corolla" and year 2017
CorollaRows ==
    {i \in 1..Len(gb_df) :
        gb_df[i].title_group = Corolla /\ gb_df[i].year = 2017 /\ gb_df[i].price_ars # NONE}

\* three records share ("toyota corolla", 2017) with 4,000,000, 4,200,000 and 3,500,000
\* pesos; min_group_size is 3 and pct_threshold is 10
CorollaScenario ==
    /\ gb_pc \in {"in", "out", "opp", "stopped"}
    /\ gb_min = 3 /\ pct_threshold = 10
    /\ Cardinality(CorollaRows) = 3
    /\ {gb_df[i].price_ars : i \in CorollaRows} = {4000000, 4200000, 3500000}

\* C21: in the scenario of three corolla/2017 records priced 4,000,000, 4,200,000 and
\* 3,500,000 with min_group_size 3 and pct_threshold 10, the group forms (its three
\* records are comparables with group_n 3 and group_mean_ars 3,900,000) and of the
\* three exactly the record of 3,500,000 is in the opportunity table.
C21_CorollaScenario ==
    CorollaScenario =>
        /\ gb_pc # "stopped"
        /\ gb_pc \in {"out", "opp"} =>
              \A i \in CorollaRows :
                  \E j \in WithKey(comp_best, gb_df[i]) :
                      /\ comp_best[j].group_n = 3
                      /\ RatEq(comp_best[j].group_mean_ars, Rat(3900000, 1))
        /\ gb_pc = "opp" =>
              \A i \in CorollaRows :
                  WithKey(opp, gb_df[i]) # {} <=> gb_df[i].price_ars = 3500000

\* the scenario run to the end: the opportunity table is the record of 3,500,000,
\* 400,000 under the mean of 3,900,000
C21_Witness ==
    /\ CorollaScenario
    /\ gb_pc = "opp"
    /\ Len(opp) = 1
    /\ opp[1].price_ars = 3500000
    /\ opp[1].title_group = Corolla
    /\ RatEq(opp[1].group_mean_ars, Rat(3900000, 1))
    /\ RatEq(opp[1].diff_ars, Rat(400000, 1))
    /\ Len(comp_best) = 3

\* a price of df that is null: None or NaN
NoPrice(price) == price \in {NONE, NAN}

\* the records of df that have a price and, in the listing, the title_group and the
\* year of row
PricedMembers(row) ==
    {i \in 1..Len(gb_df) :
        /\ ~NoPrice(df[i].price)
        /\ gb_df[i].title_group = row.title_group
        /\ gb_df[i].year = row.year}

NoTitlePeers(i) ==
    {k \in 1..Len(df) :
        Falsy(df[k].title) /\ ~NoPrice(df[k].price) /\ df[k].year = df[i].year}

\* C28: a record whose title is None or "" has title_group "" in the listing; when it
\* has a price and the priced records without title of its year are at least
\* min_group_size, it is in the comparable table, with all of them in its group_n.
C28_NoTitleGrouped ==
    gb_pc \in {"in", "out", "opp", "stopped"} =>
        \A i \in 1..Len(df) :
            Falsy(df[i].title) =>
                /\ gb_df[i].title_group = <<>>
                /\ (gb_pc \in {"out", "opp"} /\ ~NoPrice(df[i].price)
                        /\ Cardinality(NoTitlePeers(i)) >= gb_min)
                    => \E j \in WithKey(comp_best, df[i]) :
                           comp_best[j].group_n = Cardinality(NoTitlePeers(i))

\* a record with title None and one with title "" in one group of two, mean 4,000,000;
\* the one of 3,500,000 is reported as an opportunity
C28_Witness ==
    /\ gb_pc = "opp"
    /\ \E i, k \in 1..Len(df) :
        /\ df[i].title = NoneStr /\ df[k].title = <<>>
        /\ \E j \in WithKey(comp_best, df[i]) :
               /\ comp_best[j].group_n = 2
               /\ RatEq(comp_best[j].group_mean_ars, Rat(4000000, 1))
        /\ WithKey(comp_best, df[k]) # {}
        /\ WithKey(opp, df[i]) # {}
        /\ WithKey(opp, df[k]) = {}

====
